---------------------------- MODULE Spec2Model ----------------------------
(***************************************************************************)
(* A model of videofix (main.go): the track filter, the prune-safety       *)
(* check, the language/disposition resolution, the ffmpeg command builder  *)
(* and the per-file workflow transcodeEAC3.                                *)
(*                                                                         *)
(* Command-line tokens are TLA+ strings built the way fmt.Sprintf builds   *)
(* them ("-c:a:" \o ToString(n)), so a token carries the number that was   *)
(* formatted into it.                                                      *)
(***************************************************************************)
EXTENDS Integers, Sequences, FiniteSets, TLC

(***************************************************************************)
(* Bounds of the model.                                                    *)
(***************************************************************************)
\* Longest track list read from a file.
MaxTracks == 2

(***************************************************************************)
(* Program constants (main.go, const block).                               *)
(***************************************************************************)
eac3Codec == "E-AC-3"
aacCodec == "AAC"
aacBitrate == "256k"
mkvAudioType == "audio"
mkvSubType == "subtitles"

(***************************************************************************)
(* Input domains: what mkvmerge may report for a track.                    *)
(***************************************************************************)
\* Track types: the two the builder processes, and video.
TrackTypes == {"video", mkvAudioType, mkvSubType}
\* Audio codec identifiers: the two the builder knows, and one it does not.
AudioCodecs == {eac3Codec, aacCodec, "AC-3"}
\* The codec identifier of the tracks of a type.
CodecsOf(type) ==
  IF type = mkvAudioType THEN AudioCodecs
  ELSE IF type = mkvSubType THEN {"SubRip/SRT"}
  ELSE {"AVC/H.264/MPEG-4p10"}
\* Raw language properties: absent, explicitly undetermined, two languages.
Languages == {"", "und", "eng", "spa"}
\* Values of the --lang flag and of the default-language parameters: the
\* flag's default, and the empty string that disables default-setting.
LangOpts == {"eng", ""}

\* trackInfo: ID, Type, CodecID and Properties.Language.
trackInfo(id, type, codec, lang) ==
  [ID |-> id, Type |-> type, CodecID |-> codec, Language |-> lang]

\* What mkvmerge may report for one track, apart from its ID.
TrackKinds ==
  UNION { { <<type, codec, lang>> : codec \in CodecsOf(type), lang \in Languages } :
          type \in TrackTypes }

\* The track lists readTracksFunc may return: mkvmerge numbers the tracks
\* of a file from 0 upwards, in order, so the IDs are unique.
TrackLists ==
  UNION { { [i \in 1..n |-> trackInfo(i - 1, k[i][1], k[i][2], k[i][3])] :
              k \in [1..n -> TrackKinds] } : n \in 0..MaxTracks }

(***************************************************************************)
(* filterTracks: the tracks matching every non-blank criterion, in order.  *)
(***************************************************************************)
RECURSIVE filterLoop(_, _, _, _, _, _)
filterLoop(trks, ttype, codec, lang, i, acc) ==
  IF i > Len(trks) THEN acc
  ELSE LET track == trks[i] IN
       IF ttype # "" /\ track.Type # ttype
         THEN filterLoop(trks, ttype, codec, lang, i + 1, acc)
       ELSE IF codec # "" /\ track.CodecID # codec
         THEN filterLoop(trks, ttype, codec, lang, i + 1, acc)
       ELSE IF lang # "" /\ track.Language # lang
         THEN filterLoop(trks, ttype, codec, lang, i + 1, acc)
       ELSE filterLoop(trks, ttype, codec, lang, i + 1, Append(acc, track))

\* filterTracks with the codec criterion dropped.
filterTracksAnyCodec(trks, ttype, codec, lang) ==
  filterLoop(trks, ttype, "", lang, 1, << >>)

filterTracks(trks, ttype, codec, lang) ==
  filterLoop(trks, ttype, codec, lang, 1, << >>)

(***************************************************************************)
(* The state.                                                              *)
(***************************************************************************)
VARIABLES
  optLang,    \* the --lang flag (*optLang), a global read by langAndDisposition
  optPrune,   \* the --prune flag (*optPrune)
  tracks,     \* the track list under examination
  op,         \* the function called last ("none" before any call)
  in,         \* the arguments of that call
  ret,        \* what that call returned
  \* The runs of the program, one per process.
  argv,       \* flag.Args(): the files named on the command line
  pc,         \* where the process is
  idx,        \* the position in argv of the file being processed
  fs,         \* the file system: what each path holds
  tracksToProcess,  \* transcodeEAC3: the tracks read from the file
  tcmd,       \* transcodeEAC3: the command built for the file
  err,        \* what transcodeEAC3 returned for the file (nil or an error)
  logged,     \* what main logged: one entry per file attempted
  exitStatus, \* the status the process exited with (-1 while it runs)
  atEntry     \* what the input and output paths held when the run began

callVars == <<tracks, op, in, ret>>
runVars == <<argv, pc, idx, fs, tracksToProcess, tcmd, err, logged, exitStatus, atEntry>>
vars == <<optLang, optPrune, callVars, runVars>>

(***************************************************************************)
(* pruneOK: nil, or an error naming a track type that pruning would remove *)
(* entirely.  The offending type is found by ranging over a Go map, whose  *)
(* iteration order is unspecified: with several offending types the error  *)
(* may name any of them, so the model keeps the set of possible results.   *)
(***************************************************************************)
nil == "nil"

pruneError(trackType) ==
  "pruning would remove all " \o trackType \o " tracks from the output"

\* The first loop: the tracks kept by the language filter.
pruneFiltered(trks, lang) ==
  SelectSeq(trks, LAMBDA t : t.Language = lang \/ t.Language = "und")

\* The keys of the map built from a track list.
trackTypesOf(trks) == { trks[i].Type : i \in DOMAIN trks }

pruneOK(trks, lang) ==
  LET inputTrackTypes == trackTypesOf(trks)
      outputTrackTypes == trackTypesOf(pruneFiltered(trks, lang))
      missing == inputTrackTypes \ outputTrackTypes
  IN  IF missing = {} THEN {nil}
      ELSE { pruneError(trackType) : trackType \in missing }

(***************************************************************************)
(* langAndDisposition: the resolved language of a track and its            *)
(* disposition, decided against the global flag *optLang.                  *)
(***************************************************************************)
\* langAndDisposition without the "und" of a track that has no language.
langAndDispositionNoDefault(track) ==
  LET lang == track.Language
      disposition == IF lang = optLang THEN "default" ELSE "-default"
  IN  <<lang, disposition>>

\* langAndDisposition comparing the raw language with the flag.
langAndDispositionRaw(track) ==
  LET lang == IF track.Language # "" THEN track.Language ELSE "und"
      disposition == IF track.Language = optLang THEN "default" ELSE "-default"
  IN  <<lang, disposition>>

langAndDisposition(track) ==
  LET lang == IF track.Language # "" THEN track.Language ELSE "und"
      disposition == IF lang = optLang THEN "default" ELSE "-default"
  IN  <<lang, disposition>>

(***************************************************************************)
(* transcoderCmd: the ffmpeg command line.                                 *)
(***************************************************************************)
cmdPreamble(inputFile) ==
  << "ffmpeg", "-loglevel", "error", "-stats", "-i", inputFile,
     "-c:v", "copy", "-map", "0:v", "-map_chapters", "0",
     "-map_metadata", "0" >>

cmdFinal(outputFile) ==
  << "-max_interleave_delta", "0", "-y", "-f", "matroska", outputFile >>

\* The arguments that transcode the E-AC-3 track at output slot audiotrack.
eac3Args(audiotrack, lang) ==
  << "-c:a:" \o ToString(audiotrack), "aac",
     "-b:a:" \o ToString(audiotrack), aacBitrate,
     "-metadata:s:a:" \o ToString(audiotrack),
     "title=AAC Audio (" \o lang \o ")" >>

\* The arguments that copy the audio track at output slot audiotrack.
copyArgs(audiotrack) == << "-c:a:" \o ToString(audiotrack), "copy" >>

\* audioMapArgs mapping the output slot instead of the source track.
audioMapArgsBySlot(track, audiotrack, disposition) ==
  << "-map", "0:" \o ToString(audiotrack),
     "-disposition:a:" \o ToString(audiotrack), disposition >>

\* The mapping and disposition that close every emitted audio track.
audioMapArgs(track, audiotrack, disposition) ==
  << "-map", "0:" \o ToString(track.ID),
     "-disposition:a:" \o ToString(audiotrack), disposition >>

\* The arguments of a subtitle track at output slot subtrack.
subArgs(track, subtrack, disposition) ==
  << "-map", "0:" \o ToString(track.ID),
     "-c:s:" \o ToString(subtrack), "copy",
     "-disposition:s:" \o ToString(subtrack), disposition >>

\* The prune rule of the audio loop.
audioPruned(doPrune, lang, optlang) ==
  doPrune /\ lang # optlang /\ lang # "und"

\* The subtitle loop without its prune rule.
subPrunedNever(doPrune, lang, optlang) == FALSE

\* The prune rule of the subtitle loop.
subPruned(doPrune, lang, optlang) ==
  doPrune /\ optlang # lang /\ lang # "und"

\* The equivalence check with the codec left blank: any audio track of the
\* language counts, the E-AC-3 track itself included.
hasEquivalentAnyCodec(trks, lang) ==
  Len(filterTracks(trks, mkvAudioType, "", lang)) > 0

\* hasEquivalent looking for an AAC audio track of any language.
hasEquivalentAnyLanguage(trks, lang) ==
  lang # "und" /\ Len(filterTracks(trks, mkvAudioType, aacCodec, "")) > 0

\* Whether an E-AC-3 track of language lang has an AAC equivalent.
hasEquivalent(trks, lang) ==
  lang # "und" /\ Len(filterTracks(trks, mkvAudioType, aacCodec, lang)) > 0

\* An audio loop whose counter counts every audio track, skipped or not.
RECURSIVE audioLoopSlotPerTrack(_, _, _, _, _, _)
audioLoopSlotPerTrack(trks, doPrune, optlang, i, audiotrack, args) ==
  IF i > Len(trks) THEN args
  ELSE LET track == trks[i]
           ld == langAndDisposition(track)
           lang == ld[1]
           disposition == ld[2]
           skip == \/ audioPruned(doPrune, lang, optlang)
                   \/ track.CodecID = eac3Codec /\ hasEquivalent(trks, lang)
       IN  IF track.Type # mkvAudioType
             THEN audioLoopSlotPerTrack(trks, doPrune, optlang, i + 1,
                                        audiotrack, args)
           ELSE IF skip
             THEN audioLoopSlotPerTrack(trks, doPrune, optlang, i + 1,
                                        audiotrack + 1, args)
           ELSE audioLoopSlotPerTrack(trks, doPrune, optlang, i + 1,
                  audiotrack + 1,
                  args \o (IF track.CodecID = eac3Codec
                             THEN eac3Args(audiotrack, lang)
                             ELSE copyArgs(audiotrack))
                       \o audioMapArgs(track, audiotrack, disposition))

\* The audio loop from track i on, with the args and the slot counter so far.
RECURSIVE audioLoop(_, _, _, _, _, _)
audioLoop(trks, doPrune, optlang, i, audiotrack, args) ==
  IF i > Len(trks) THEN args
  ELSE LET track == trks[i]
           ld == langAndDisposition(track)
           lang == ld[1]
           disposition == ld[2]
       IN  IF track.Type # mkvAudioType
             THEN audioLoop(trks, doPrune, optlang, i + 1, audiotrack, args)
           ELSE IF audioPruned(doPrune, lang, optlang)
             THEN audioLoop(trks, doPrune, optlang, i + 1, audiotrack, args)
           ELSE IF track.CodecID = eac3Codec
             THEN IF hasEquivalent(trks, lang)
                    THEN audioLoop(trks, doPrune, optlang, i + 1, audiotrack, args)
                  ELSE audioLoop(trks, doPrune, optlang, i + 1, audiotrack + 1,
                         args \o eac3Args(audiotrack, lang)
                              \o audioMapArgs(track, audiotrack, disposition))
           ELSE audioLoop(trks, doPrune, optlang, i + 1, audiotrack + 1,
                  args \o copyArgs(audiotrack)
                       \o audioMapArgs(track, audiotrack, disposition))

\* The subtitle loop from track i on.
RECURSIVE subLoop(_, _, _, _, _, _)
subLoop(trks, doPrune, optlang, i, subtrack, args) ==
  IF i > Len(trks) THEN args
  ELSE LET track == trks[i]
           ld == langAndDisposition(track)
           lang == ld[1]
           disposition == ld[2]
       IN  IF track.Type # mkvSubType
             THEN subLoop(trks, doPrune, optlang, i + 1, subtrack, args)
           ELSE IF subPruned(doPrune, lang, optlang)
             THEN subLoop(trks, doPrune, optlang, i + 1, subtrack, args)
           ELSE subLoop(trks, doPrune, optlang, i + 1, subtrack + 1,
                  args \o subArgs(track, subtrack, disposition))

\* transcoderCmd with the subtitle loop run before the audio loop.
transcoderCmdSubsFirst(inputFile, outputFile, trks, doPrune, optlang) ==
  LET afterSubs == subLoop(trks, doPrune, optlang, 1, 0, cmdPreamble(inputFile))
      afterAudio == audioLoop(trks, doPrune, optlang, 1, 0, afterSubs)
  IN  afterAudio \o cmdFinal(outputFile)

transcoderCmd(inputFile, outputFile, trks, doPrune, optlang) ==
  LET afterAudio == audioLoop(trks, doPrune, optlang, 1, 0, cmdPreamble(inputFile))
      afterSubs == subLoop(trks, doPrune, optlang, 1, 0, afterAudio)
  IN  afterSubs \o cmdFinal(outputFile)

(***************************************************************************)
(* Processes, files and paths.                                             *)
(***************************************************************************)
\* Longest list of files on a command line.
MaxFiles == 2

\* The runs of the program that may be active at once.
Procs == {1, 2}

outputSuffix == "_with_aac"

\* A file named on the command line, in the current directory: the file
\* name without its extension, and the extension (filepath.Ext).
InputFiles ==
  { [name |-> "a", ext |-> ".mkv"],
    [name |-> "b", ext |-> ".MKV"],
    [name |-> "notes", ext |-> ".txt"],
    [name |-> "gone", ext |-> ".mkv"] }

\* strings.ToLower on the extensions in use.
ToLower(ext) == IF ext = ".MKV" THEN ".mkv" ELSE ext

\* The path of a file as given: filename is name and extension.
mkvfileOf(f) == f.name \o f.ext

\* filepath.Join(dirname, filenameNoExt + outputSuffix + extension + ".TMP"),
\* with the extension lower-cased.
outputFileOf(f) == f.name \o outputSuffix \o ToLower(f.ext) \o ".TMP"

Paths == { mkvfileOf(f) : f \in InputFiles } \cup { outputFileOf(f) : f \in InputFiles }

\* What a path holds: nothing, or a kind of content and the process that
\* wrote it (0: it was there before any run).
Absent == <<"absent", 0>>
Original == <<"original", 0>>
Leftover == <<"leftover", 0>>
Partial(p) == <<"partial", p>>
Transcoded(p) == <<"transcoded", p>>

(***************************************************************************)
(* The functions called on their own, as the unit tests call them: the     *)
(* inputs are drawn in Init, every action is one call.  A behaviour calls  *)
(* one function, any number of times: the calls change nothing but the     *)
(* record of the last call, so this loses no reachable state.              *)
(***************************************************************************)
\* Criteria given to filterTracks: blank, or a value.
FilterTypes == {"", mkvAudioType}
FilterCodecs == {"", aacCodec}
FilterLangs == {"", "eng"}
\* Paths given to transcoderCmd: (input, output).
CmdPaths == { <<"input.mkv", "output.mkv">> }

\* No process runs while the functions are called on their own.
NoRuns ==
  /\ argv = [p \in Procs |-> << >>]
  /\ pc = [p \in Procs |-> "exited"]
  /\ idx = [p \in Procs |-> 0]
  /\ fs = [path \in Paths |-> Absent]
  /\ tracksToProcess = [p \in Procs |-> << >>]
  /\ tcmd = [p \in Procs |-> << >>]
  /\ err = [p \in Procs |-> nil]
  /\ logged = [p \in Procs |-> << >>]
  /\ exitStatus = [p \in Procs |-> 0]
  /\ atEntry = [p \in Procs |-> << >>]

Init ==
  /\ optLang \in LangOpts
  /\ optPrune = FALSE
  /\ tracks \in TrackLists
  /\ op = "none"
  /\ in = << >>
  /\ ret = << >>
  /\ NoRuns

\* The flag is reassigned (flag.Parse; the tests assign it before a call).
SetOptLang ==
  /\ \E l \in LangOpts \ {optLang} : optLang' = l
  /\ UNCHANGED <<optPrune, callVars, runVars>>

CallFilterTracks ==
  \E ttype \in FilterTypes, codec \in FilterCodecs, lang \in FilterLangs :
    /\ op \in {"none", "filterTracks"}
    /\ op' = "filterTracks"
    /\ in' = [ttype |-> ttype, codec |-> codec, lang |-> lang]
    /\ ret' = filterTracks(tracks, ttype, codec, lang)
    /\ UNCHANGED <<optLang, optPrune, tracks, runVars>>

CallPruneOK ==
  \E lang \in LangOpts :
    /\ op \in {"none", "pruneOK"}
    /\ op' = "pruneOK"
    /\ in' = [lang |-> lang]
    /\ ret' \in pruneOK(tracks, lang)
    /\ UNCHANGED <<optLang, optPrune, tracks, runVars>>

\* in records the flag with the track: the function reads it as an input.
CallLangAndDisposition ==
  \E i \in DOMAIN tracks :
    /\ op \in {"none", "langAndDisposition"}
    /\ op' = "langAndDisposition"
    /\ in' = [track |-> tracks[i], optLang |-> optLang]
    /\ ret' = langAndDisposition(tracks[i])
    /\ UNCHANGED <<optLang, optPrune, tracks, runVars>>

CallTranscoderCmd ==
  \E paths \in CmdPaths, doPrune \in BOOLEAN, optlang \in LangOpts :
    /\ op \in {"none", "transcoderCmd"}
    /\ op' = "transcoderCmd"
    /\ in' = [inputFile |-> paths[1], outputFile |-> paths[2],
              doPrune |-> doPrune, optlang |-> optlang]
    /\ ret' = transcoderCmd(paths[1], paths[2], tracks, doPrune, optlang)
    /\ UNCHANGED <<optLang, optPrune, tracks, runVars>>

Next ==
  \/ SetOptLang
  \/ CallFilterTracks
  \/ CallPruneOK
  \/ CallLangAndDisposition
  \/ CallTranscoderCmd

Spec == Init /\ [][Next]_vars

(***************************************************************************)
(* Vocabulary of the properties, stated from the inputs of a call and      *)
(* not from the way the functions compute.                                 *)
(***************************************************************************)
\* The resolved language of a track: its raw language, or "und" when empty.
resolvedLanguage(t) == IF t.Language = "" THEN "und" ELSE t.Language

\* The i-th smallest member of a set of indices.
nth(S, i) == CHOOSE x \in S : Cardinality({y \in S : y <= x}) = i

\* The subsequence of trks at the indices S, in their original order.
restrictedTo(trks, S) == [i \in 1..Cardinality(S) |-> trks[nth(S, i)]]

(***************************************************************************)
(* C1: pruneOK(tracks, defaultLanguage) fails exactly when some track type *)
(* present in the input has no track whose resolved language is the        *)
(* default language or "und"; the error then names such a type; every      *)
(* other input, the empty list included, succeeds.                         *)
(***************************************************************************)
typesLostByPruning(trks, lang) ==
  { type \in trackTypesOf(trks) :
      ~ \E i \in DOMAIN trks :
          /\ trks[i].Type = type
          /\ resolvedLanguage(trks[i]) \in {lang, "und"} }

C1_PruneOKFailsExactlyOnLostType ==
  op = "pruneOK" =>
    /\ (ret # nil) <=> (typesLostByPruning(tracks, in.lang) # {})
    /\ ret # nil =>
         \E type \in typesLostByPruning(tracks, in.lang) : ret = pruneError(type)

(***************************************************************************)
(* C4: filterTracks returns exactly the tracks that match every non-empty  *)
(* criterion, in their original relative order and without duplication;    *)
(* with all criteria empty it returns the input, and when nothing matches  *)
(* it returns the empty sequence.                                          *)
(***************************************************************************)
matchingIndices(trks, ttype, codec, lang) ==
  { i \in DOMAIN trks :
      /\ ttype = "" \/ trks[i].Type = ttype
      /\ codec = "" \/ trks[i].CodecID = codec
      /\ lang = "" \/ trks[i].Language = lang }

C4_FilterTracksExact ==
  op = "filterTracks" =>
    LET M == matchingIndices(tracks, in.ttype, in.codec, in.lang) IN
    /\ ret = restrictedTo(tracks, M)
    /\ (in.ttype = "" /\ in.codec = "" /\ in.lang = "") => ret = tracks
    /\ M = {} => ret = << >>

\* A filter with a criterion that keeps some tracks and drops others.
C4_Witness ==
  /\ op = "filterTracks"
  /\ in.codec = aacCodec /\ in.ttype = mkvAudioType
  /\ Len(tracks) = 2
  /\ Len(ret) = 1
  /\ ret[1] = tracks[2]

(***************************************************************************)
(* C5: langAndDisposition returns disposition "default" if and only if the *)
(* resolved language of the track equals the configured default language,  *)
(* "-default" otherwise; with an empty default language no track is        *)
(* "default".                                                              *)
(***************************************************************************)
C5_DispositionIffDefaultLanguage ==
  op = "langAndDisposition" =>
    /\ ret[2] \in {"default", "-default"}
    /\ (ret[2] = "default") <=> (resolvedLanguage(in.track) = in.optLang)
    /\ in.optLang = "" => ret[2] = "-default"

\* A track without a language resolved while the default language is empty.
C5_Witness ==
  /\ op = "langAndDisposition"
  /\ in.optLang = ""
  /\ in.track.Language = ""
  /\ ret[2] = "-default"

(***************************************************************************)
(* Vocabulary of the properties of transcoderCmd.                          *)
(***************************************************************************)
\* The tokens of a command line are numbered from 1; the fixed preamble
\* holds PreambleLen of them and the fixed epilogue FinalLen.
PreambleLen == 14
FinalLen == 6

\* The mapping argument that names the source track t.
mapTarget(t) == "0:" \o ToString(t.ID)

\* A track passes the prune rule.
keptByPrune(t, doPrune, optlang) ==
  doPrune => resolvedLanguage(t) \in {optlang, "und"}

\* An E-AC-3 audio track with an AAC audio track of its (known) language.
redundantEAC3(trks, i) ==
  /\ trks[i].Type = "audio"
  /\ trks[i].CodecID = "E-AC-3"
  /\ resolvedLanguage(trks[i]) # "und"
  /\ \E j \in DOMAIN trks :
       /\ trks[j].Type = "audio"
       /\ trks[j].CodecID = "AAC"
       /\ resolvedLanguage(trks[j]) = resolvedLanguage(trks[i])

\* The audio tracks that are neither pruned nor redundant.
emittedAudio(trks, doPrune, optlang) ==
  { i \in DOMAIN trks :
      /\ trks[i].Type = "audio"
      /\ keptByPrune(trks[i], doPrune, optlang)
      /\ ~ redundantEAC3(trks, i) }

\* The positions after the preamble that hold a "-map" and its target.
mapPositions(cmd) ==
  { p \in (PreambleLen + 1)..(Len(cmd) - FinalLen - 1) : cmd[p] = "-map" }

\* The positions at which cmd maps the track t.
mappingsOf(cmd, t) == { p \in mapPositions(cmd) : cmd[p + 1] = mapTarget(t) }

\* The token at p + 1 names a track of the given type.
mapsType(cmd, trks, p, type) ==
  \E i \in DOMAIN trks : trks[i].Type = type /\ cmd[p + 1] = mapTarget(trks[i])

(***************************************************************************)
(* C2: in the audio phase, for every audio track not skipped by the prune  *)
(* rule: a redundant E-AC-3 track (language not "und", an AAC audio track  *)
(* of the same language in the full list) emits nothing; any other E-AC-3  *)
(* track emits codec aac, bitrate 256k and the title "AAC Audio (<lang>)"  *)
(* for its output slot, then its mapping and disposition; every other      *)
(* audio track emits codec copy, then its mapping and disposition.         *)
(***************************************************************************)
\* Tokens emitted for the tracks of E before track i.
audioOffset(trks, E, i) ==
  6 * Cardinality({ j \in E : j < i })
  + 4 * Cardinality({ j \in E : j < i /\ trks[j].CodecID = "E-AC-3" })

C2_AudioPhase ==
  op = "transcoderCmd" =>
    LET E == emittedAudio(tracks, in.doPrune, in.optlang)
        total == audioOffset(tracks, E, Len(tracks) + 1)
    IN
    /\ Len(ret) >= PreambleLen + total + FinalLen
    /\ \A i \in E :
         LET s == PreambleLen + audioOffset(tracks, E, i)
             n == ToString(Cardinality({ j \in E : j < i }))
             t == tracks[i]
         IN  IF t.CodecID = "E-AC-3"
               THEN /\ SubSeq(ret, s + 1, s + 9) =
                         << "-c:a:" \o n, "aac", "-b:a:" \o n, "256k",
                            "-metadata:s:a:" \o n,
                            "title=AAC Audio (" \o resolvedLanguage(t) \o ")",
                            "-map", mapTarget(t), "-disposition:a:" \o n >>
                    /\ ret[s + 10] \in {"default", "-default"}
               ELSE /\ SubSeq(ret, s + 1, s + 5) =
                         << "-c:a:" \o n, "copy",
                            "-map", mapTarget(t), "-disposition:a:" \o n >>
                    /\ ret[s + 6] \in {"default", "-default"}
    \* Nothing else belongs to the audio phase: a subtitle track or the
    \* epilogue follows.
    /\ ret[PreambleLen + total + 1] \in {"-map", "-max_interleave_delta"}

\* An E-AC-3 track dropped for its AAC equivalent, which is copied at slot 0.
C2_Witness ==
  /\ op = "transcoderCmd"
  /\ Len(tracks) = 2
  /\ tracks[1].Type = "audio" /\ tracks[1].CodecID = "E-AC-3"
  /\ tracks[2].Type = "audio" /\ tracks[2].CodecID = "AAC"
  /\ tracks[1].Language = "eng" /\ tracks[2].Language = "eng"
  /\ Len(ret) = PreambleLen + 6 + FinalLen
  /\ SubSeq(ret, 15, 18) = << "-c:a:0", "copy", "-map", "0:1" >>

(***************************************************************************)
(* C3: transcoderCmd is a pure function of its five arguments: two calls   *)
(* with the same input path, output path, track list, prune flag and       *)
(* default language return the same argument sequence, whatever the value  *)
(* of the global --lang flag.                                              *)
(***************************************************************************)
C3_TranscoderCmdPure ==
  [][ (op = "transcoderCmd" /\ op' = "transcoderCmd" /\ in' = in /\ tracks' = tracks)
        => ret' = ret ]_vars

(***************************************************************************)
(* C6: the output of transcoderCmd starts with the fixed preamble, ends    *)
(* with the fixed epilogue, and every mapping produced for an audio track  *)
(* precedes every mapping produced for a subtitle track, whatever the      *)
(* order of the tracks in the input.                                       *)
(***************************************************************************)
C6_PreambleEpilogueAudioFirst ==
  op = "transcoderCmd" =>
    /\ Len(ret) >= PreambleLen + FinalLen
    /\ SubSeq(ret, 1, PreambleLen) =
         << "ffmpeg", "-loglevel", "error", "-stats", "-i", in.inputFile,
            "-c:v", "copy", "-map", "0:v", "-map_chapters", "0",
            "-map_metadata", "0" >>
    /\ SubSeq(ret, Len(ret) - FinalLen + 1, Len(ret)) =
         << "-max_interleave_delta", "0", "-y", "-f", "matroska", in.outputFile >>
    /\ \A p, q \in mapPositions(ret) :
         (mapsType(ret, tracks, p, "audio") /\ mapsType(ret, tracks, q, "subtitles"))
           => p < q

\* A subtitle track listed before an audio track, both mapped.
C6_Witness ==
  /\ op = "transcoderCmd"
  /\ Len(tracks) = 2
  /\ tracks[1].Type = "subtitles" /\ tracks[2].Type = "audio"
  /\ mappingsOf(ret, tracks[1]) # {}
  /\ mappingsOf(ret, tracks[2]) # {}

(***************************************************************************)
(* C7: with pruning enabled, transcoderCmd emits arguments for an audio or *)
(* subtitle track only if its resolved language is the default language or *)
(* "und"; with pruning disabled no track is skipped for its language:      *)
(* every subtitle track, and every audio track that is not a redundant     *)
(* E-AC-3 track, is mapped exactly once.                                   *)
(***************************************************************************)
C7_PruneRule ==
  op = "transcoderCmd" =>
    \A i \in DOMAIN tracks :
      LET t == tracks[i]
          n == Cardinality(mappingsOf(ret, t))
      IN  t.Type \in {"audio", "subtitles"} =>
            /\ in.doPrune =>
                 (n > 0 => resolvedLanguage(t) \in {in.optlang, "und"})
            /\ ~ in.doPrune =>
                 /\ t.Type = "subtitles" => n = 1
                 /\ (t.Type = "audio" /\ ~ redundantEAC3(tracks, i)) => n = 1

\* Pruning drops the audio track of another language and keeps the other.
C7_Witness ==
  /\ op = "transcoderCmd"
  /\ in.doPrune /\ in.optlang = "eng"
  /\ Len(tracks) = 2
  /\ tracks[1].Type = "audio" /\ tracks[1].Language = "spa"
  /\ tracks[2].Type = "audio" /\ tracks[2].Language = "eng"
  /\ mappingsOf(ret, tracks[1]) = {}
  /\ mappingsOf(ret, tracks[2]) # {}

(***************************************************************************)
(* C8: every per-track mapping argument is "0:<ID>" with the identifier of *)
(* the source track, each emitted track is mapped exactly once, and every  *)
(* codec, bitrate, title and disposition argument is indexed by the output *)
(* slot of the track, not by its source identifier.                        *)
(***************************************************************************)
\* The output slot of the track mapped at p: the number of tracks of its
\* type mapped before it.
slotAt(cmd, trks, p, type) ==
  Cardinality({ q \in mapPositions(cmd) : q < p /\ mapsType(cmd, trks, q, type) })

C8_MapBySourceIDIndexBySlot ==
  op = "transcoderCmd" =>
    LET P == mapPositions(ret)
        audioAt(p) == mapsType(ret, tracks, p, "audio")
        transcodedAt(p) == audioAt(p) /\ ret[p - 1] # "copy"
    IN
    /\ \A p \in P :
         /\ audioAt(p) \/ mapsType(ret, tracks, p, "subtitles")
         /\ \A q \in P : q # p => ret[q + 1] # ret[p + 1]
         /\ audioAt(p) =>
              LET n == ToString(slotAt(ret, tracks, p, "audio")) IN
              /\ ret[p + 2] = "-disposition:a:" \o n
              /\ \/ ret[p - 2] = "-c:a:" \o n /\ ret[p - 1] = "copy"
                 \/ /\ ret[p - 6] = "-c:a:" \o n
                    /\ ret[p - 4] = "-b:a:" \o n
                    /\ ret[p - 2] = "-metadata:s:a:" \o n
         /\ ~ audioAt(p) =>
              LET n == ToString(slotAt(ret, tracks, p, "subtitles")) IN
              /\ ret[p + 2] = "-c:s:" \o n
              /\ ret[p + 4] = "-disposition:s:" \o n
    \* Every token between the preamble and the epilogue belongs to a
    \* mapped track.
    /\ Len(ret) = PreambleLen + FinalLen + 6 * Cardinality(P)
                    + 4 * Cardinality({ p \in P : transcodedAt(p) })

\* An audio track with identifier 1 mapped at output slot 0.
C8_Witness ==
  /\ op = "transcoderCmd"
  /\ Len(tracks) = 2
  /\ tracks[1].Type = "video" /\ tracks[2].Type = "audio"
  /\ tracks[2].CodecID = "E-AC-3"
  /\ SubSeq(ret, 15, 24) =
       << "-c:a:0", "aac", "-b:a:0", "256k", "-metadata:s:a:0",
          "title=AAC Audio (und)", "-map", "0:1", "-disposition:a:0", "-default" >>

(***************************************************************************)
(* The runs of the program: main and, per file, transcodeEAC3.  Each       *)
(* action is one step that reads or writes the file system, with the local *)
(* computation that follows it.  The runs share the command-line flags.    *)
(***************************************************************************)
\* The track lists the probe may report: the fixtures of the unit tests,
\* and a file without tracks.
TranscoderCmdFixture ==
  << trackInfo(1, "audio", "E-AC-3", "eng"),
     trackInfo(2, "audio", "AAC", "eng"),
     trackInfo(3, "video", "V_MPEG4/ISO/AVC", ""),
     trackInfo(4, "subtitles", "S_HDMV/PGS", "eng"),
     trackInfo(5, "audio", "E-AC-3", "spa") >>

PruneOKFixture ==
  << trackInfo(1, "audio", "AAC", "eng"),
     trackInfo(2, "audio", "E-AC-3", "por"),
     trackInfo(3, "video", "V_MPEG4/ISO/AVC", "und"),
     trackInfo(4, "subtitles", "S_HDMV/PGS", "eng"),
     trackInfo(5, "subtitles", "S_HDMV/PGS", "por") >>

PruneFailFixture ==
  << trackInfo(1, "audio", "AAC", "spa"),
     trackInfo(2, "video", "V_MPEG4/ISO/AVC", "und") >>

ProbeLists == { << >>, TranscoderCmdFixture, PruneOKFixture, PruneFailFixture }

\* The errors transcodeEAC3 returns, by kind.
ErrNotFound == "file not found"
ErrNotMKV == "not an MKV file"
ErrOutputExists == "output file already exists. Skipping"
ErrProbe == "error running mkvmerge"
ErrFfmpeg == "ffmpeg conversion failed"
ErrOriginalGone == "original file no longer exists after transcoding"
ErrRename == "failed to move"

\* The file a process is working on, and its two paths.
curFile(p) == argv[p][idx[p]]
mkvfile(p) == mkvfileOf(curFile(p))
outputFile(p) == outputFileOf(curFile(p))

\* transcodeEAC3 returns e: the locals are gone.
returns(p, e) ==
  /\ err' = [err EXCEPT ![p] = e]
  /\ pc' = [pc EXCEPT ![p] = "returned"]
  /\ tracksToProcess' = [tracksToProcess EXCEPT ![p] = << >>]
  /\ tcmd' = [tcmd EXCEPT ![p] = << >>]

\* transcodeEAC3 goes on at the given place.
goesTo(p, where) ==
  /\ pc' = [pc EXCEPT ![p] = where]
  /\ UNCHANGED err

\* main, up to the loop: usage, the flag check and checkRequirements (whose
\* outcome depends on what is installed).
Startup(p) ==
  /\ pc[p] = "main"
  /\ \E installed \in BOOLEAN :
       IF Len(argv[p]) < 1 \/ (optPrune /\ optLang = "") \/ ~ installed
         THEN /\ pc' = [pc EXCEPT ![p] = "exited"]
              /\ exitStatus' = [exitStatus EXCEPT ![p] = 1]
              /\ UNCHANGED idx
         ELSE /\ pc' = [pc EXCEPT ![p] = "loop"]
              /\ idx' = [idx EXCEPT ![p] = 1]
              /\ UNCHANGED exitStatus
  /\ UNCHANGED <<optLang, optPrune, callVars, argv, fs, tracksToProcess, tcmd,
                 err, logged, atEntry>>

\* The head of the loop over flag.Args(): the next file, or os.Exit(0).
\* Entering transcodeEAC3, the model notes what the two paths hold.
NextFile(p) ==
  /\ pc[p] = "loop"
  /\ IF idx[p] > Len(argv[p])
       THEN /\ pc' = [pc EXCEPT ![p] = "exited"]
            /\ exitStatus' = [exitStatus EXCEPT ![p] = 0]
            /\ UNCHANGED atEntry
       ELSE /\ pc' = [pc EXCEPT ![p] = "statInput"]
            /\ atEntry' = [atEntry EXCEPT ![p] = <<fs[mkvfile(p)], fs[outputFile(p)]>>]
            /\ UNCHANGED exitStatus
  /\ UNCHANGED <<optLang, optPrune, callVars, argv, idx, fs, tracksToProcess,
                 tcmd, err, logged>>

\* os.Stat(mkvfile), then the extension check.
StatInput(p) ==
  /\ pc[p] = "statInput"
  /\ IF fs[mkvfile(p)] = Absent THEN returns(p, ErrNotFound)
     ELSE IF ToLower(curFile(p).ext) # ".mkv" THEN returns(p, ErrNotMKV)
     ELSE goesTo(p, "statOutput") /\ UNCHANGED <<tracksToProcess, tcmd>>
  /\ UNCHANGED <<optLang, optPrune, callVars, argv, idx, fs, logged,
                 exitStatus, atEntry>>

\* A transcodeEAC3 that does not look for the temp file.
StatOutputSkipped(p) ==
  /\ pc[p] = "statOutput"
  /\ goesTo(p, "readTracks")
  /\ UNCHANGED <<tracksToProcess, tcmd>>
  /\ UNCHANGED <<optLang, optPrune, callVars, argv, idx, fs, logged,
                 exitStatus, atEntry>>

\* os.Stat(outputFile): do not proceed if the temp file already exists.
StatOutput(p) ==
  /\ pc[p] = "statOutput"
  /\ IF fs[outputFile(p)] # Absent THEN returns(p, ErrOutputExists)
     ELSE goesTo(p, "readTracks") /\ UNCHANGED <<tracksToProcess, tcmd>>
  /\ UNCHANGED <<optLang, optPrune, callVars, argv, idx, fs, logged,
                 exitStatus, atEntry>>

\* readTracksFunc(mkvfile): mkvmerge fails, or reports the tracks.
ReadTracks(p) ==
  /\ pc[p] = "readTracks"
  /\ \/ returns(p, ErrProbe)
     \/ \E trks \in ProbeLists :
          /\ tracksToProcess' = [tracksToProcess EXCEPT ![p] = trks]
          /\ goesTo(p, "prune")
          /\ UNCHANGED tcmd
  /\ UNCHANGED <<optLang, optPrune, callVars, argv, idx, fs, logged,
                 exitStatus, atEntry>>

\* The prune-safety check when --prune is given, then transcoderCmd.
BuildCmd(p) ==
  /\ pc[p] = "prune"
  /\ \E e \in (IF optPrune THEN pruneOK(tracksToProcess[p], optLang) ELSE {nil}) :
       IF e # nil THEN returns(p, e)
       ELSE /\ tcmd' = [tcmd EXCEPT ![p] =
                 transcoderCmd(mkvfile(p), outputFile(p), tracksToProcess[p],
                               optPrune, optLang)]
            /\ goesTo(p, "run")
            /\ UNCHANGED tracksToProcess
  /\ UNCHANGED <<optLang, optPrune, callVars, argv, idx, fs, logged,
                 exitStatus, atEntry>>

\* The path ffmpeg reads (after "-i") and the path it writes (its last
\* argument).
ffmpegInput(cmd) == cmd[6]
ffmpegOutput(cmd) == cmd[Len(cmd)]

\* cmd.Run() starts ffmpeg: it fails at once, or opens its output,
\* overwriting (-y) what the path held.
FfmpegStart(p) ==
  /\ pc[p] = "run"
  /\ \/ /\ goesTo(p, "remove")
        /\ UNCHANGED fs
     \/ /\ fs[ffmpegInput(tcmd[p])] # Absent
        /\ fs' = [fs EXCEPT ![ffmpegOutput(tcmd[p])] = Partial(p)]
        /\ goesTo(p, "ffmpeg")
  /\ UNCHANGED <<optLang, optPrune, callVars, argv, idx, tracksToProcess, tcmd,
                 logged, exitStatus, atEntry>>

\* ffmpeg exits: with failure, leaving what it wrote, or with success, its
\* output complete (if the path still holds the file it was writing).
FfmpegExit(p) ==
  /\ pc[p] = "ffmpeg"
  /\ \/ /\ goesTo(p, "remove")
        /\ UNCHANGED fs
     \/ /\ fs' = [fs EXCEPT ![ffmpegOutput(tcmd[p])] =
                   IF @ = Partial(p) THEN Transcoded(p) ELSE @]
        /\ goesTo(p, "statOriginal")
  /\ UNCHANGED <<optLang, optPrune, callVars, argv, idx, tracksToProcess, tcmd,
                 logged, exitStatus, atEntry>>

\* The failure path without the os.Remove.
RemoveOutputSkipped(p) ==
  /\ pc[p] = "remove"
  /\ UNCHANGED fs
  /\ returns(p, ErrFfmpeg)
  /\ UNCHANGED <<optLang, optPrune, callVars, argv, idx, logged, exitStatus,
                 atEntry>>

\* After a failure: os.Remove(outputFile), and the error.
RemoveOutput(p) ==
  /\ pc[p] = "remove"
  /\ fs' = [fs EXCEPT ![outputFile(p)] = Absent]
  /\ returns(p, ErrFfmpeg)
  /\ UNCHANGED <<optLang, optPrune, callVars, argv, idx, logged, exitStatus,
                 atEntry>>

\* After a success: os.Stat(mkvfile).
StatOriginal(p) ==
  /\ pc[p] = "statOriginal"
  /\ IF fs[mkvfile(p)] = Absent THEN returns(p, ErrOriginalGone)
     ELSE goesTo(p, "rename") /\ UNCHANGED <<tracksToProcess, tcmd>>
  /\ UNCHANGED <<optLang, optPrune, callVars, argv, idx, fs, logged,
                 exitStatus, atEntry>>

\* A move that copies the output over the original and leaves the output.
RenameCopies(p) ==
  /\ pc[p] = "rename"
  /\ \/ /\ returns(p, ErrRename)
        /\ UNCHANGED fs
     \/ /\ fs[outputFile(p)] # Absent
        /\ fs' = [fs EXCEPT ![mkvfile(p)] = fs[outputFile(p)]]
        /\ returns(p, nil)
  /\ UNCHANGED <<optLang, optPrune, callVars, argv, idx, logged, exitStatus,
                 atEntry>>

\* os.Rename(outputFile, mkvfile): it fails (always when the output is
\* gone), or the output replaces the original.
Rename(p) ==
  /\ pc[p] = "rename"
  /\ \/ /\ returns(p, ErrRename)
        /\ UNCHANGED fs
     \/ /\ fs[outputFile(p)] # Absent
        /\ fs' = [fs EXCEPT ![mkvfile(p)] = fs[outputFile(p)],
                            ![outputFile(p)] = Absent]
        /\ returns(p, nil)
  /\ UNCHANGED <<optLang, optPrune, callVars, argv, idx, logged, exitStatus,
                 atEntry>>

\* A main that gives up at the first file that fails.
LogResultFailFast(p) ==
  /\ pc[p] = "returned"
  /\ logged' = [logged EXCEPT ![p] = Append(@, <<mkvfile(p), err[p]>>)]
  /\ idx' = [idx EXCEPT ![p] = @ + 1]
  /\ IF err[p] # nil
       THEN /\ pc' = [pc EXCEPT ![p] = "exited"]
            /\ exitStatus' = [exitStatus EXCEPT ![p] = 1]
       ELSE /\ pc' = [pc EXCEPT ![p] = "loop"]
            /\ UNCHANGED exitStatus
  /\ UNCHANGED <<optLang, optPrune, callVars, argv, fs, tracksToProcess, tcmd,
                 err, atEntry>>

\* main logs what transcodeEAC3 returned and goes on with the next file.
LogResult(p) ==
  /\ pc[p] = "returned"
  /\ logged' = [logged EXCEPT ![p] = Append(@, <<mkvfile(p), err[p]>>)]
  /\ idx' = [idx EXCEPT ![p] = @ + 1]
  /\ pc' = [pc EXCEPT ![p] = "loop"]
  /\ UNCHANGED <<optLang, optPrune, callVars, argv, fs, tracksToProcess, tcmd,
                 err, exitStatus, atEntry>>

RunNext ==
  \E p \in Procs :
    \/ Startup(p)
    \/ NextFile(p)
    \/ StatInput(p)
    \/ StatOutput(p)
    \/ ReadTracks(p)
    \/ BuildCmd(p)
    \/ FfmpegStart(p)
    \/ FfmpegExit(p)
    \/ RemoveOutput(p)
    \/ StatOriginal(p)
    \/ Rename(p)
    \/ LogResult(p)

\* No function has been called on its own.
NoCalls ==
  /\ tracks = << >>
  /\ op = "none"
  /\ in = << >>
  /\ ret = << >>

\* The file system before any run: the three files that exist, and
\* possibly an output left over by an earlier crash.
InitialFs ==
  { f \in [Paths -> {Absent, Original, Leftover}] :
      /\ f["a.mkv"] = Original
      /\ f["b.MKV"] = Original
      /\ f["notes.txt"] = Original
      /\ f["gone.mkv"] = Absent
      /\ \A x \in InputFiles : f[outputFileOf(x)] \in {Absent, Leftover}
      /\ f["notes_with_aac.txt.TMP"] = Absent
      /\ f["gone_with_aac.mkv.TMP"] = Absent }

\* The command lines of at most MaxFiles files.
ArgLists == UNION { [1..n -> InputFiles] : n \in 0..MaxFiles }

RunLocalsInit ==
  /\ idx = [p \in Procs |-> 0]
  /\ tracksToProcess = [p \in Procs |-> << >>]
  /\ tcmd = [p \in Procs |-> << >>]
  /\ err = [p \in Procs |-> nil]
  /\ logged = [p \in Procs |-> << >>]
  /\ atEntry = [p \in Procs |-> << >>]

(***************************************************************************)
(* One run of the program, on any command line.                            *)
(***************************************************************************)
InitFile ==
  /\ optLang \in LangOpts
  /\ optPrune \in BOOLEAN
  /\ NoCalls
  /\ \E a \in ArgLists : argv = [p \in Procs |-> IF p = 1 THEN a ELSE << >>]
  /\ pc = [p \in Procs |-> IF p = 1 THEN "main" ELSE "exited"]
  /\ exitStatus = [p \in Procs |-> IF p = 1 THEN -1 ELSE 0]
  /\ fs \in InitialFs
  /\ RunLocalsInit

SpecFile == InitFile /\ [][RunNext]_vars

\* The same run when the program is scheduled and every child process
\* (mkvmerge, ffmpeg) ends: a step that can be taken is taken.
SpecFileFair == InitFile /\ [][RunNext]_vars /\ WF_vars(RunNext)

(***************************************************************************)
(* Two runs of the program at once, on the same file.                      *)
(***************************************************************************)
InitRace ==
  /\ optLang \in LangOpts
  /\ optPrune \in BOOLEAN
  /\ NoCalls
  /\ \E f \in {x \in InputFiles : x.ext # ".txt"} : argv = [p \in Procs |-> <<f>>]
  /\ pc = [p \in Procs |-> "main"]
  /\ exitStatus = [p \in Procs |-> -1]
  /\ fs \in InitialFs
  /\ RunLocalsInit

SpecRace == InitRace /\ [][RunNext]_vars

(***************************************************************************)
(* C9: in transcodeEAC3, when the transcoder exits with failure, the run   *)
(* returns an error, the temporary output path no longer exists            *)
(* afterwards, and the original input file is as it was when the run       *)
(* began.                                                                  *)
(***************************************************************************)
C9_TranscoderFailureCleansUp ==
  [][ \A p \in Procs :
        (pc[p] = "remove" /\ pc'[p] # "remove") =>
          /\ pc'[p] = "returned"
          /\ err'[p] # nil
          /\ fs'[outputFile(p)] = Absent
          /\ fs'[mkvfile(p)] = atEntry[p][1] ]_vars

\* A run has returned the transcoder's failure for a file that exists.
C9_Witness ==
  /\ pc[1] = "returned"
  /\ err[1] = ErrFfmpeg
  /\ fs[mkvfile(1)] = Original
  /\ fs[outputFile(1)] = Absent

(***************************************************************************)
(* C10: in every interleaving of two runs of transcodeEAC3 on the same     *)
(* input file, the two runs never both reach the transcoder invocation     *)
(* writing the same temporary output path.                                 *)
(***************************************************************************)
C10_NeverTwoTranscodersOnOneOutput ==
  ~ ( /\ pc[1] = "ffmpeg"
      /\ pc[2] = "ffmpeg"
      /\ ffmpegOutput(tcmd[1]) = ffmpegOutput(tcmd[2]) )

(***************************************************************************)
(* C11: once the start-up checks have passed, main attempts every input    *)
(* file in argument order: what each attempt returned, error or not, is    *)
(* logged under the file's name, an error never stops the loop, and the    *)
(* process then exits with status 0 with every file attempted.             *)
(***************************************************************************)
C11_EveryFileAttemptedExitZero ==
  /\ [](\A p \in Procs :
          /\ Len(logged[p]) <= Len(argv[p])
          /\ \A i \in 1..Len(logged[p]) :
                logged[p][i][1] = mkvfileOf(argv[p][i])
          /\ (pc[p] = "exited" /\ idx[p] >= 1) =>
                /\ exitStatus[p] = 0
                /\ Len(logged[p]) = Len(argv[p]))
  /\ \A p \in Procs :
       (idx[p] >= 1) ~> (pc[p] = "exited" /\ exitStatus[p] = 0)

\* The process has exited with status 0 after a first file that failed and
\* a second one that was transcoded.
C11_Witness ==
  /\ pc[1] = "exited"
  /\ exitStatus[1] = 0
  /\ Len(logged[1]) = 2
  /\ logged[1][1][2] # nil
  /\ logged[1][2][2] = nil

\* The places of transcodeEAC3 at which a per-file check is made, the
\* places at which the transcoder has been invoked, and the errors the
\* checks return.
checkSteps == {"statInput", "statOutput", "readTracks", "prune"}
transcoderInvoked == {"ffmpeg", "remove", "statOriginal", "rename"}
checkErrors ==
  {ErrNotFound, ErrNotMKV, ErrOutputExists, ErrProbe}
    \cup { pruneError(trackType) : trackType \in TrackTypes }

(***************************************************************************)
(* C12: in transcodeEAC3 the transcoder is invoked only after every        *)
(* per-file check has passed: the input existed, it has an .mkv extension, *)
(* the temporary output path did not exist, the probe returned a track     *)
(* list and, with --prune, pruneOK accepted it.  A check that fails makes  *)
(* the run return an error from the place of the check, the transcoder     *)
(* not invoked, the original and the temporary output path holding what    *)
(* they held when the run began.                                           *)
(***************************************************************************)
C12_TranscoderOnlyAfterChecks ==
  /\ [](\A p \in Procs :
          /\ pc[p] \in {"run"} \cup transcoderInvoked =>
                /\ atEntry[p][1] # Absent
                /\ ToLower(curFile(p).ext) = ".mkv"
                /\ atEntry[p][2] = Absent
                /\ tracksToProcess[p] \in ProbeLists
                /\ optPrune => nil \in pruneOK(tracksToProcess[p], optLang)
          /\ (pc[p] = "returned" /\ err[p] \in checkErrors) =>
                /\ fs[mkvfile(p)] = atEntry[p][1]
                /\ fs[outputFile(p)] = atEntry[p][2])
  /\ [][\A p \in Procs :
          /\ (pc[p] \in checkSteps /\ pc'[p] = "returned") =>
                /\ err'[p] \in checkErrors
                /\ fs' = fs
          /\ (pc'[p] = "returned" /\ pc[p] # "returned"
                /\ err'[p] \in checkErrors) => pc[p] \in checkSteps
          /\ (pc'[p] \in transcoderInvoked /\ pc[p] \notin transcoderInvoked)
                => pc[p] = "run" ]_vars

\* After a file that was transcoded, the run on the next file has returned
\* the error of the prune-safety check.
C12_Witness ==
  /\ pc[1] = "returned"
  /\ err[1] = pruneError("audio")
  /\ Len(logged[1]) = 1
  /\ logged[1][1][2] = nil
  /\ fs[outputFile(1)] = Absent

(***************************************************************************)
(* C13, as stated: the resolved language returned by langAndDisposition is *)
(* "und" if and only if the raw language of the track is empty; otherwise  *)
(* it is the raw language.                                                 *)
(***************************************************************************)
C13_UndIffRawEmpty ==
  op = "langAndDisposition" =>
    /\ (ret[1] = "und") <=> (in.track.Language = "")
    /\ in.track.Language # "" => ret[1] = in.track.Language

(***************************************************************************)
(* C13, amended: the resolved language returned by langAndDisposition is   *)
(* "und" when the raw language of the track is empty and the raw language  *)
(* otherwise, so it is "und" if and only if the raw language is empty or   *)
(* is itself "und"; it is never empty.                                     *)
(***************************************************************************)
C13_UndIffRawEmptyOrUnd ==
  op = "langAndDisposition" =>
    /\ in.track.Language = "" => ret[1] = "und"
    /\ in.track.Language # "" => ret[1] = in.track.Language
    /\ (ret[1] = "und") <=> (in.track.Language \in {"", "und"})
    /\ ret[1] # ""

\* A track whose raw language is "und" has been resolved.
C13_Witness ==
  /\ op = "langAndDisposition"
  /\ in.track.Language = "und"
  /\ ret[1] = "und"

\* The E-AC-3 audio track i passed the prune rule and cmd does not map it:
\* it was dropped as redundant.
droppedAsRedundant(trks, i, doPrune, optlang, cmd) ==
  /\ trks[i].Type = "audio"
  /\ trks[i].CodecID = "E-AC-3"
  /\ keptByPrune(trks[i], doPrune, optlang)
  /\ mappingsOf(cmd, trks[i]) = {}

\* cmd maps an audio track of the given resolved language.
audioOfLanguage(trks, cmd, lang) ==
  \E j \in DOMAIN trks :
    /\ trks[j].Type = "audio"
    /\ resolvedLanguage(trks[j]) = lang
    /\ mappingsOf(cmd, trks[j]) # {}

\* The edge case: an E-AC-3 track dropped as redundant, every AAC audio
\* track of its language skipped by the prune rule, no audio track of that
\* language in the output, the prune-safety check passed.
edgeCase(trks, doPrune, optlang, cmd) ==
  \E i \in DOMAIN trks :
    /\ droppedAsRedundant(trks, i, doPrune, optlang, cmd)
    /\ redundantEAC3(trks, i)
    /\ \A j \in DOMAIN trks :
         ( /\ trks[j].Type = "audio"
           /\ trks[j].CodecID = "AAC"
           /\ resolvedLanguage(trks[j]) = resolvedLanguage(trks[i]) )
         => ~ keptByPrune(trks[j], doPrune, optlang)
    /\ ~ audioOfLanguage(trks, cmd, resolvedLanguage(trks[i]))
    /\ doPrune => nil \in pruneOK(trks, optlang)

(***************************************************************************)
(* C14, as stated: the edge case is reachable: there is a track list and   *)
(* a choice of options for which transcoderCmd drops an E-AC-3 audio track *)
(* as redundant although every AAC audio track of the same language is     *)
(* skipped by the prune rule, the output holding no audio track of that    *)
(* language although the prune-safety check did not fail.                  *)
(***************************************************************************)
C14_EdgeCaseReachable ==
  \E trks \in TrackLists, paths \in CmdPaths, doPrune \in BOOLEAN,
     optlang \in LangOpts :
    edgeCase(trks, doPrune, optlang,
             transcoderCmd(paths[1], paths[2], trks, doPrune, optlang))

(***************************************************************************)
(* C14, amended: the edge case is not reachable: whenever transcoderCmd    *)
(* drops an E-AC-3 audio track that passed the prune rule, an AAC audio    *)
(* track of the same language passed the prune rule too and is mapped, so  *)
(* the output holds an audio track of that language.                       *)
(***************************************************************************)
C14_RedundantEAC3KeepsItsLanguage ==
  op = "transcoderCmd" =>
    /\ \A i \in DOMAIN tracks :
         droppedAsRedundant(tracks, i, in.doPrune, in.optlang, ret) =>
           /\ \E j \in DOMAIN tracks :
                /\ tracks[j].Type = "audio"
                /\ tracks[j].CodecID = "AAC"
                /\ tracks[j].Language = resolvedLanguage(tracks[i])
                /\ keptByPrune(tracks[j], in.doPrune, in.optlang)
                /\ mappingsOf(ret, tracks[j]) # {}
           /\ audioOfLanguage(tracks, ret, resolvedLanguage(tracks[i]))
    /\ ~ edgeCase(tracks, in.doPrune, in.optlang, ret)

\* With pruning on, an E-AC-3 track of the default language was dropped for
\* an AAC track of that language, next to an audio track that was pruned.
C14_Witness ==
  /\ op = "transcoderCmd"
  /\ in.doPrune
  /\ in.optlang = "eng"
  /\ \E i \in DOMAIN tracks :
       /\ droppedAsRedundant(tracks, i, TRUE, "eng", ret)
       /\ audioOfLanguage(tracks, ret, "eng")

\* The positions of cmd that hold an argument made of the given prefix and
\* a slot number.
slotArgPositions(cmd, prefix) ==
  { p \in 1..Len(cmd) :
      \E n \in 0..MaxTracks : cmd[p] = prefix \o ToString(n) }

\* The arguments of cmd with the given prefix carry, in the order in which
\* they appear, the slot numbers 0, 1, ..., k - 1.
slotsCountUp(cmd, prefix, k) ==
  LET P == slotArgPositions(cmd, prefix)
  IN  /\ Cardinality(P) = k
      /\ \A n \in 1..k : cmd[nth(P, n)] = prefix \o ToString(n - 1)

\* The subtitle tracks that produce arguments.
emittedSubs(trks, doPrune, optlang) ==
  { i \in DOMAIN trks :
      trks[i].Type = "subtitles" /\ keptByPrune(trks[i], doPrune, optlang) }

(***************************************************************************)
(* C15: in every output of transcoderCmd the audio slot numbers are        *)
(* exactly 0, 1, ..., k-1 in order of emission, k the number of audio      *)
(* tracks that produced arguments, and the subtitle slot numbers exactly   *)
(* 0..m-1 for the m emitted subtitle tracks: a pruned or redundant track   *)
(* consumes no slot number, and neither counter depends on the other.      *)
(***************************************************************************)
C15_SlotsCountUpPerType ==
  op = "transcoderCmd" =>
    LET k == Cardinality(emittedAudio(tracks, in.doPrune, in.optlang))
        m == Cardinality(emittedSubs(tracks, in.doPrune, in.optlang))
    IN  /\ k = Cardinality({ p \in mapPositions(ret) :
                               mapsType(ret, tracks, p, "audio") })
        /\ m = Cardinality({ p \in mapPositions(ret) :
                               mapsType(ret, tracks, p, "subtitles") })
        /\ slotsCountUp(ret, "-c:a:", k)
        /\ slotsCountUp(ret, "-disposition:a:", k)
        /\ slotsCountUp(ret, "-c:s:", m)
        /\ slotsCountUp(ret, "-disposition:s:", m)

\* With pruning on, an audio track was skipped and the audio track after it
\* was emitted: the emitted track takes slot 0.
C15_Witness ==
  /\ op = "transcoderCmd"
  /\ in.doPrune
  /\ Len(tracks) = 2
  /\ tracks[1].Type = "audio"
  /\ 1 \notin emittedAudio(tracks, in.doPrune, in.optlang)
  /\ 2 \in emittedAudio(tracks, in.doPrune, in.optlang)
  /\ slotsCountUp(ret, "-c:a:", 1)
  /\ slotsCountUp(ret, "-disposition:a:", 1)

\* cmd carries a stream of the given type to the output: the video streams
\* by the "-map 0:v" of the preamble, an audio or subtitle stream by the
\* mapping of one of the tracks of that type.
emitsStream(cmd, trks, type) ==
  IF type = "video"
    THEN \E p \in 1..PreambleLen : cmd[p] = "-map" /\ cmd[p + 1] = "0:v"
    ELSE \E i \in DOMAIN trks :
           trks[i].Type = type /\ mappingsOf(cmd, trks[i]) # {}

(***************************************************************************)
(* C16: with a non-empty default language, pruneOK rejects a track list    *)
(* only if transcoderCmd, on the same tracks with the same default         *)
(* language and pruning on, emits no output stream for some track type     *)
(* that is present in the input.                                           *)
(***************************************************************************)
C16_PruneOKRejectsOnlyWhatPruningRemoves ==
  (op = "pruneOK" /\ in.lang # "" /\ ret # nil) =>
    \E paths \in CmdPaths :
      LET cmd == transcoderCmd(paths[1], paths[2], tracks, TRUE, in.lang)
      IN  \E type \in trackTypesOf(tracks) : ~ emitsStream(cmd, tracks, type)

\* The errors transcodeEAC3 returns after a transcoding that succeeded.
afterTranscodeErrors == {ErrOriginalGone, ErrRename}

\* An earlier run of transcodeEAC3 by p, on a file with the temporary
\* output path of the current one, returned one of the given errors.
earlierRunReturned(p, errors) ==
  \E i \in 1..Len(logged[p]) :
    /\ outputFileOf(argv[p][i]) = outputFile(p)
    /\ logged[p][i][2] \in errors

(***************************************************************************)
(* C17, as stated: a run of transcodeEAC3 that returns, with success or    *)
(* with any error, leaves no temporary output file that it created, so a   *)
(* later run on the same file is never rejected by the                     *)
(* output-already-exists check because of an earlier run that returned.    *)
(***************************************************************************)
C17_ReturnedRunLeavesNoTempFile ==
  \A p \in Procs :
    pc[p] = "returned" =>
      /\ fs[outputFile(p)] \in {Absent, atEntry[p][2]}
      /\ err[p] = ErrOutputExists => atEntry[p][2] = Leftover

(***************************************************************************)
(* C17, amended: a run of transcodeEAC3 that returns with success or with  *)
(* any error other than a failed move (or an original found missing after  *)
(* the transcoding) leaves no temporary output file that it created; a run *)
(* whose move failed leaves the complete output at the temporary path, and *)
(* a later run on the same file is rejected by the output-already-exists   *)
(* check only for a file left by such a run or one that was there before   *)
(* the program started.                                                    *)
(***************************************************************************)
C17_OnlyFailedMoveLeavesTempFile ==
  \A p \in Procs :
    pc[p] = "returned" =>
      /\ err[p] \notin afterTranscodeErrors =>
            fs[outputFile(p)] \in {Absent, atEntry[p][2]}
      /\ err[p] = ErrRename =>
            /\ atEntry[p][2] = Absent
            /\ fs[outputFile(p)] = Transcoded(p)
      /\ err[p] = ErrOutputExists =>
            \/ atEntry[p][2] = Leftover
            \/ /\ atEntry[p][2] = Transcoded(p)
               /\ earlierRunReturned(p, afterTranscodeErrors)

\* A second run on a file was rejected by the output-already-exists check:
\* the first had transcoded the file and failed to move the output.
C17_Witness ==
  /\ pc[1] = "returned"
  /\ err[1] = ErrOutputExists
  /\ atEntry[1][2] = Transcoded(1)
  /\ earlierRunReturned(1, {ErrRename})

=============================================================================
